---------------------------- MODULE Spec2Model ----------------------------
(***************************************************************************)
(* OINIO Soul System: the credential store (users.enc), the per-user       *)
(* record stores (souls_<username>.enc), the AES-256-GCM envelope and the  *)
(* login / main-menu / soul-menu driver of the multi-user program, plus    *)
(* the single-passphrase program of oinio-system.js.                       *)
(*                                                                         *)
(* Cryptography is modelled symbolically: a hash, a KDF output, a random   *)
(* draw and a ciphertext are terms; two terms are equal exactly when they  *)
(* were built from equal inputs (no collisions), and crypto.randomBytes    *)
(* returns a value that no earlier draw returned.                          *)
(***************************************************************************)
EXTENDS Integers, Sequences, FiniteSets, TLC

\* ------------------------------------------------------------------ bounds
MaxDraws == 8
MaxEpochs == 2
MaxStrLen == 2
MaxEnvDraws == 6
MaxOracleClock == 2
MaxOracleSeeds == 2
MaxStatsDraws == 12
MaxForgeElapsedMs == 5000

\* ------------------------------------------------------- program constants
SaltBytes == 32
HashKeyLen == 64
EncKeyLen == 32
GcmTagBytes == 16
SeedBytes == 32
ForgeTimeoutMs == 3000
MaxSoulNameLen == 50
QUANTUM_TIMEOUT_MS_DEFAULT == 3000
QUANTUM_TIMEOUT_MS_CONFIG_JS == 5000

\* ------------------------------------------------------------ input sets
\* "constructor" is a property every JavaScript object inherits from
\* Object.prototype; it has 11 letters and so passes askUsername.
Usernames == {"alice", "bob", "constructor"}
\* what can be typed at the username prompt: also 2 characters, 21 characters,
\* and characters of a path
TypedUsernames == Usernames \cup {"ab", "a2345678901234567890z", "../x"}
Passwords == {"pw-one-1", "pw-two-2"}
SoulNames == {"Self", "__proto__"}
\* what can be typed at the soul name prompt: also nothing, and 51 characters
TypedSoulNames ==
  SoulNames \cup {"", "123456789012345678901234567890123456789012345678901"}
Questions == {"What now?"}

\* Property names found on Object.prototype (a lookup obj[k] that finds no own
\* property k returns the inherited value).
ObjectPrototypeKeys == {"constructor", "__proto__"}

\* ------------------------------------------------------ JavaScript values
Null == [t |-> "null"]
Undefined == [t |-> "undefined"]
\* the value of an inherited property (a function or Object.prototype): truthy,
\* and reading .salt or .hash from it gives undefined
Inherited == [t |-> "inherited"]
EmptyBuf == [t |-> "empty"]

\* crypto.randomBytes(n): the d-th draw of the process history
randomBytes(d) == [t |-> "rnd", n |-> d]

\* buf.toString('hex')
toHex(buf) == [t |-> "hexstr", v |-> buf]

IsString(x) == x.t \in {"hexstr", "str"}

\* Buffer.from(x, 'hex'): a hex string decodes to its bytes, a string holding
\* no hex digit decodes to the empty buffer, an array of bytes is copied (the
\* encoding argument is ignored), anything else throws (Null here).
BufferFrom(x) ==
  CASE x.t = "hexstr" -> x.v
    [] x.t = "str" -> EmptyBuf
    [] x.t = "array" -> x.v
    [] OTHER -> Null

\* crypto.pbkdf2Sync(password, salt, 100000, keylen, digest)
pbkdf2Sync(password, salt, keylen, digest) ==
  [t |-> "pbkdf2", pw |-> password, salt |-> salt, len |-> keylen, dg |-> digest]

deriveKey(passphrase) == [t |-> "sha256", of |-> passphrase]

deriveEncryptionKey(password, salt) == pbkdf2Sync(password, salt, EncKeyLen, "sha256")

getUsersDbKey == deriveKey("oinio-users-db-v1")

\* ------------------------------------------------- strings and UTF-8 bytes
\* A string is Str(u), u a sequence of UTF-16 code units.  HS and LS are a high
\* and a low surrogate; a JSON text (the output of JSON.stringify, which
\* escapes unpaired surrogates) is one well-formed unit.
Str(u) == [t |-> "text", u |-> u]
Ch(c) == [t |-> "ch", c |-> c]
HS == [t |-> "hs"]
LS == [t |-> "ls"]
Replacement == [t |-> "fffd"]

\* Buffer.from(str, 'utf8') as cipher.update(plaintext, 'utf8') does it: a
\* surrogate pair is one scalar, an unpaired surrogate becomes U+FFFD.
RECURSIVE Utf8Encode(_)
Utf8Encode(s) ==
  IF s = <<>> THEN <<>>
  ELSE IF Len(s) >= 2 /\ s[1] = HS /\ s[2] = LS
    THEN <<[t |-> "u8", of |-> <<HS, LS>>]>> \o Utf8Encode(SubSeq(s, 3, Len(s)))
  ELSE IF s[1] \in {HS, LS}
    THEN <<[t |-> "u8", of |-> <<Replacement>>]>> \o Utf8Encode(Tail(s))
  ELSE <<[t |-> "u8", of |-> <<s[1]>>]>> \o Utf8Encode(Tail(s))

\* buf.toString('utf8')
RECURSIVE Utf8DecodeMutSplitPairs(_)
Utf8DecodeMutSplitPairs(b) ==
  IF b = <<>> THEN <<>>
  ELSE (IF Len(b[1].of) = 2 THEN <<Replacement, Replacement>> ELSE b[1].of)
       \o Utf8DecodeMutSplitPairs(Tail(b))

RECURSIVE Utf8Decode(_)
Utf8Decode(b) ==
  IF b = <<>> THEN <<>> ELSE b[1].of \o Utf8Decode(Tail(b))

\* ------------------------------------------------------------ AES-256-GCM
\* Tag lengths decipher.setAuthTag accepts for GCM when createDecipheriv was
\* given no authTagLength option.
ValidTagLengths == {4, 8, 12, 13, 14, 15, 16}

\* counter-mode encryption of bytes under (key, iv)
AesCtr(key, iv, bytes) == [t |-> "ct", k |-> key, iv |-> iv, pt |-> bytes, flip |-> FALSE]

\* what the GHASH tag authenticates
GcmMac(key, iv, ct) == [k |-> key, iv |-> iv, ct |-> ct]

\* cipher.getAuthTag(): the full 16-byte tag
GcmTag(key, iv, ct) ==
  [t |-> "tag", mac |-> GcmMac(key, iv, ct), len |-> GcmTagBytes, flip |-> FALSE]

\* encrypt(plaintext, key); d is the draw crypto.randomBytes(16) returns
encryptMutFixedIv(plaintext, key, d) ==
  LET iv == randomBytes(0)
      encrypted == AesCtr(key, iv, Utf8Encode(plaintext.u))
  IN  [iv |-> iv, authTag |-> GcmTag(key, iv, encrypted), encrypted |-> encrypted]

encrypt(plaintext, key, d) ==
  LET iv == randomBytes(d)
      encrypted == AesCtr(key, iv, Utf8Encode(plaintext.u))
  IN  [iv |-> iv, authTag |-> GcmTag(key, iv, encrypted), encrypted |-> encrypted]

\* decipher.final() accepts: the tag has a valid length and equals the leading
\* bytes of the tag computed over (key, iv, ciphertext)
TagAccepted(iv, authTag, encrypted, key) ==
  /\ authTag.t = "tag"
  /\ authTag.len \in ValidTagLengths
  /\ authTag.flip = FALSE
  /\ authTag.mac = GcmMac(key, iv, encrypted)

\* decrypt(iv, authTag, encrypted, key): plaintext, or Null when
\* createDecipheriv, setAuthTag or final throws
decrypt(iv, authTag, encrypted, key) ==
  IF iv.t \in {"empty", "null"} THEN Null
  ELSE IF ~TagAccepted(iv, authTag, encrypted, key) THEN Null
  ELSE Str(Utf8Decode(encrypted.pt))

\* !x for the values a load handles: null, undefined and the empty string
Falsy(x) == x.t \in {"null", "undefined", "missing"} \/ (x.t = "text" /\ x.u = <<>>)

\* ------------------------------------------------------------------- JSON
ObjectProto == [t |-> "Object.prototype"]

\* JSON.stringify(obj): the own enumerable properties, whatever the prototype
JSONstringify(obj) == Str(<<[t |-> "json", v |-> obj.own]>>)

\* JSON.parse(text): a fresh plain object, or Null when it throws
JSONparse(text) ==
  IF text.t = "text" /\ Len(text.u) = 1 /\ text.u[1].t = "json"
  THEN [t |-> "object", own |-> text.u[1].v, proto |-> ObjectProto]
  ELSE Null

EmptyObject == [t |-> "object", own |-> <<>>, proto |-> ObjectProto]

\* Object.keys(obj)
ObjectKeys(obj) == DOMAIN obj.own

\* obj[k]: the own property, else what the prototype chain gives
Get(obj, k) ==
  IF k \in DOMAIN obj.own THEN obj.own[k]
  ELSE IF k \in ObjectPrototypeKeys THEN Inherited
  ELSE Undefined

\* a function with one more (or one replaced) key
Put(f, k, v) == [x \in (DOMAIN f) \cup {k} |-> IF x = k THEN v ELSE f[x]]

\* obj[k] = v: assigning "__proto__" replaces the prototype and creates no
\* own property
Set(obj, k, v) ==
  IF k = "__proto__" THEN [obj EXCEPT !.proto = v]
  ELSE [obj EXCEPT !.own = Put(obj.own, k, v)]

\* ------------------------------------------------------------------ files
Absent == [t |-> "absent"]
Garbage == [t |-> "garbage"]
Missing == [t |-> "missing"]

\* the bundle text written by the save functions
Bundle(e) ==
  [t |-> "bundle", iv |-> toHex(e.iv), authTag |-> toHex(e.authTag),
   data |-> toHex(e.encrypted)]

fileExists(file) == file.t # "absent"

WriteOutcomes == {"ok", "eacces", "enospc"}

\* fs.writeFileSync(path, text): written; or it throws with the file untouched
\* (open fails); or it throws after the file was truncated (the disk is full)
writeFileSync(old, new, wr) ==
  CASE wr = "ok" -> new
    [] wr = "eacces" -> old
    [] OTHER -> Garbage

\* ------------------------------------------------- users database (users.enc)
\* hashPassword(password): d is the draw that gives the salt
hashPassword(password, d) ==
  LET salt == toHex(randomBytes(d))
  IN  [salt |-> salt, hash |-> toHex(pbkdf2Sync(password, salt, HashKeyLen, "sha512"))]

\* bytes in a buffer
BufLen(b) ==
  CASE b.t = "pbkdf2" -> b.len
    [] b.t = "rnd" -> SaltBytes
    [] OTHER -> 0

\* verifyPassword(password, salt, hash) for string arguments
verifyPasswordMutAcceptAll(password, salt, hash) == TRUE

verifyPassword(password, salt, hash) ==
  LET computedHash == pbkdf2Sync(password, salt, HashKeyLen, "sha512")
      storedHash == BufferFrom(hash)
  IN  IF BufLen(computedHash) # BufLen(storedHash) THEN FALSE
      ELSE computedHash = storedHash

\* saveUsers(usersDb): the file afterwards, whether it returned true, and the
\* encrypt call it made
saveUsers(usersDb, file, d, wr) ==
  LET payload == JSONstringify(usersDb)
      e == encrypt(payload, getUsersDbKey, d)
  IN  [ok |-> (wr = "ok"),
       file |-> writeFileSync(file, Bundle(e), wr),
       enc |-> <<[pt |-> payload, key |-> getUsersDbKey, env |-> e]>>]

\* the validation and decryption both loaders of the multi-user program apply
\* to a file that exists: the parsed plaintext, or Null
loadBundle(file, k) ==
  IF file.t # "bundle" THEN Null
  ELSE IF Falsy(file.iv) \/ Falsy(file.authTag) \/ Falsy(file.data) THEN Null
  ELSE IF ~IsString(file.iv) \/ ~IsString(file.authTag) \/ ~IsString(file.data) THEN Null
  ELSE LET plaintext == decrypt(BufferFrom(file.iv), BufferFrom(file.authTag),
                                BufferFrom(file.data), k)
       IN  IF Falsy(plaintext) THEN Null ELSE JSONparse(plaintext)

\* loadUsers()
loadUsersMutCorruptIsEmpty(file) ==
  IF ~fileExists(file) THEN EmptyObject
  ELSE IF loadBundle(file, getUsersDbKey) = Null THEN EmptyObject
  ELSE loadBundle(file, getUsersDbKey)

loadUsers(file) ==
  IF ~fileExists(file) THEN EmptyObject ELSE loadBundle(file, getUsersDbKey)

Truthy(x) == ~Falsy(x)

\* askUsername(rl): whether the username typed is returned; if not, the prompt
\* is shown again or the login screen starts over.  The characters accepted
\* are those of /^[a-zA-Z0-9_-]+$/.
UsernameChars ==
  {"a", "b", "c", "d", "e", "f", "g", "h", "i", "j", "k", "l", "m", "n", "o", "p", "q", "r",
   "s", "t", "u", "v", "w", "x", "y", "z", "A", "B", "C", "D", "E", "F", "G", "H", "I", "J",
   "K", "L", "M", "N", "O", "P", "Q", "R", "S", "T", "U", "V", "W", "X", "Y", "Z", "0", "1",
   "2", "3", "4", "5", "6", "7", "8", "9", "_", "-"}

askUsernameMutLengthOnly(username) ==
  username # "" /\ Len(username) >= 3 /\ Len(username) <= 20

askUsername(username) ==
  /\ username # ""
  /\ Len(username) >= 3 /\ Len(username) <= 20
  /\ \A i \in 1..Len(username) : SubSeq(username, i, i) \in UsernameChars

\* results returned by registerUser and authenticateUser
Failure(msg) == [success |-> FALSE, error |-> msg]
Success == [success |-> TRUE]
AuthSuccess(salt) == [success |-> TRUE, encryptionSalt |-> salt]
\* an exception that leaves the function instead of a result
Thrown == [thrown |-> "TypeError"]

Succeeded(r) == "success" \in DOMAIN r /\ r.success

\* registerUser(username, password): the result, the file afterwards, the
\* number of draws afterwards and the encrypt calls made
registerUserMutNoTakenCheck(username, password, file, d, now, wr) ==
  LET usersDb == loadUsers(file)
      hp == hashPassword(password, d + 1)
      rec == [t |-> "user", salt |-> hp.salt, hash |-> hp.hash,
              encryptionSalt |-> toHex(randomBytes(d + 2)), created |-> now]
      sv == saveUsers(Set(usersDb, username, rec), file, d + 3, wr)
  IN  IF usersDb = Null
      THEN [res |-> Failure("Failed to load users database"), file |-> file,
            draws |-> d, enc |-> <<>>]
      ELSE [res |-> IF sv.ok THEN Success ELSE Failure("Failed to save user"),
            file |-> sv.file, draws |-> d + 3, enc |-> sv.enc]

registerUser(username, password, file, d, now, wr) ==
  LET usersDb == loadUsers(file)
      hp == hashPassword(password, d + 1)
      rec == [t |-> "user", salt |-> hp.salt, hash |-> hp.hash,
              encryptionSalt |-> toHex(randomBytes(d + 2)), created |-> now]
      sv == saveUsers(Set(usersDb, username, rec), file, d + 3, wr)
  IN  IF usersDb = Null
      THEN [res |-> Failure("Failed to load users database"), file |-> file,
            draws |-> d, enc |-> <<>>]
      ELSE IF Truthy(Get(usersDb, username))
      THEN [res |-> Failure("Username already exists"), file |-> file,
            draws |-> d, enc |-> <<>>]
      ELSE [res |-> IF sv.ok THEN Success ELSE Failure("Failed to save user"),
            file |-> sv.file, draws |-> d + 3, enc |-> sv.enc]

\* authenticateUser(username, password).  A user value without a string salt
\* (an inherited property) makes pbkdf2Sync throw out of verifyPassword.
authenticateUser(username, password, file) ==
  LET usersDb == loadUsers(file)
      user == Get(usersDb, username)
  IN  IF usersDb = Null THEN Failure("Failed to load users database")
      ELSE IF Falsy(user) THEN Failure("Invalid username or password")
      ELSE IF user.t # "user" THEN Thrown
      ELSE IF verifyPassword(password, user.salt, user.hash)
           THEN AuthSuccess(user.encryptionSalt)
           ELSE Failure("Invalid username or password")

\* ------------------------------------------- soul registries (souls_*.enc)
USERS_FILE == "users.enc"
LEGACY_SOULS_FILE == "souls.enc"

\* getSoulsFilePath(username)
getSoulsFilePath(username) ==
  IF username = "" THEN "souls.enc" ELSE "souls_" \o username \o ".enc"

\* two usernames that differ only in case
FoldUsers == {"alice", "Alice"}

Paths ==
  {USERS_FILE, LEGACY_SOULS_FILE}
    \cup {getSoulsFilePath(u) : u \in TypedUsernames \cup FoldUsers}

VARIABLE foldCase      \* the file system treats names that differ only in case as one file

\* the lower-case form of a file name, for the file names of this model
LowerCase(path) == IF path = "souls_Alice.enc" THEN "souls_alice.enc" ELSE path

\* the directory entry a path names: fs.readFileSync / fs.writeFileSync /
\* fs.existsSync on a case-insensitive file system (the default on macOS and
\* Windows) reach the same file through every spelling of its name
ResolvePath(path) == IF foldCase THEN LowerCase(path) ELSE path

Time(n) == [t |-> "time", at |-> n]

\* saveSouls(soulRegistry, key, username): files afterwards, whether it
\* returned true, and the encrypt call it made
saveSoulsMutWrongKey(soulRegistry, k, uname, files, d, wr) ==
  LET soulsFile == getSoulsFilePath(uname)
      payload == JSONstringify(soulRegistry)
      e == encrypt(payload, getUsersDbKey, d)
  IN  [ok |-> (wr = "ok"),
       files |-> [files EXCEPT ![soulsFile] = writeFileSync(@, Bundle(e), wr)],
       enc |-> <<[pt |-> payload, key |-> k, env |-> e]>>]

saveSouls(soulRegistry, k, uname, files, d, wr) ==
  LET soulsFile == getSoulsFilePath(uname)
      payload == JSONstringify(soulRegistry)
      e == encrypt(payload, k, d)
  IN  [ok |-> (wr = "ok"),
       files |-> [files EXCEPT ![ResolvePath(soulsFile)] = writeFileSync(@, Bundle(e), wr)],
       enc |-> <<[pt |-> payload, key |-> k, env |-> e]>>]

\* loadSouls(key, username) of the multi-user program
loadSouls(k, uname, files) ==
  LET soulsFile == getSoulsFilePath(uname)
  IN  IF ~fileExists(files[ResolvePath(soulsFile)]) THEN EmptyObject
      ELSE loadBundle(files[ResolvePath(soulsFile)], k)

\* askSoulName(rl, existingNames): whether the name typed is returned; if not,
\* the prompt is shown again
askSoulName(name, existingNames) ==
  /\ name # ""
  /\ name \notin existingNames
  /\ Len(name) <= MaxSoulNameLen

\* createSoul(name): d is the draw that gives the seed
createSoul(name, d, now) ==
  [t |-> "soul", name |-> name, seed |-> toHex(randomBytes(d)), created |-> Time(now),
   lastEpoch |-> Null, epochs |-> <<>>]

\* ----------------------------------------------------------------- oracle
VARIABLE clock         \* the time the last new Date() returned

PATTERNS ==
  <<"The Spiral", "The Mirror", "The Threshold", "The Void",
    "The Bloom", "The Anchor", "The Storm", "The Seed",
    "The River", "The Mountain", "The Web", "The Flame",
    "The Echo", "The Door", "The Root", "The Sky">>

MESSAGES ==
  <<"What once was hidden now seeks form.",
    "The pattern remembers itself through you.",
    "Resistance is the shape of the next becoming.",
    "You are the question and the answer.",
    "What you seek is seeking you.",
    "The chaos contains the blueprint.",
    "This moment is the initiation.",
    "You are already what you are becoming.",
    "The wound is where the light enters.",
    "Trust the spiral, not the straight line.",
    "What falls away was never yours.",
    "The void is full of potential.",
    "You are the bridge between worlds.",
    "The fear is the threshold.",
    "What you birth will birth you.",
    "The ending is also the beginning.">>

\* arr[i] of a JavaScript array (0-based); undefined outside the array
UndefinedElement == "undefined"
ArrayGet(arr, i) == IF i \in 0..(Len(arr) - 1) THEN arr[i + 1] ELSE UndefinedElement

\* hash.readUInt32BE(off) % m for a Buffer given as the sequence of its bytes.
\* The 32-bit value is b0*2^24 + b1*2^16 + b2*2^8 + b3; its remainder is taken
\* by Horner's rule, reducing after each byte, which gives the same number.
ReadUInt32BEMod(hash, off, m) ==
  LET b(i) == hash[off + 1 + i]
  IN  ((((((b(0) % m) * 256 + b(1)) % m) * 256 + b(2)) % m) * 256 + b(3)) % m

\* the body of generateDeterministicReading after the digest was computed
ReadingFromDigestMutNoPlusOne(hash) ==
  [t |-> "reading", mode |-> "deterministic",
   resonance |-> hash[1] % 100, clarity |-> hash[2] % 100,
   flux |-> hash[3] % 100, emergence |-> hash[4] % 100,
   pattern |-> ArrayGet(PATTERNS, ReadUInt32BEMod(hash, 4, Len(PATTERNS))),
   message |-> ArrayGet(MESSAGES, ReadUInt32BEMod(hash, 8, Len(MESSAGES)))]

ReadingFromDigest(hash) ==
  LET resonance == (hash[1] % 100) + 1
      clarity == (hash[2] % 100) + 1
      flux == (hash[3] % 100) + 1
      emergence == (hash[4] % 100) + 1
      patternIndex == ReadUInt32BEMod(hash, 4, Len(PATTERNS))
      messageIndex == ReadUInt32BEMod(hash, 8, Len(MESSAGES))
  IN  [t |-> "reading", mode |-> "deterministic",
       resonance |-> resonance, clarity |-> clarity, flux |-> flux, emergence |-> emergence,
       pattern |-> ArrayGet(PATTERNS, patternIndex),
       message |-> ArrayGet(MESSAGES, messageIndex)]

\* `${question}|${seed}|${epochNumber}`
Combined(q, seed, n) == [t |-> "combined", q |-> q, seed |-> seed, n |-> n]

\* crypto.createHash('sha256').update(combined, 'utf8').digest(), its twelve
\* leading bytes (the only ones read).  SHA-256 is a fixed function of its
\* input; on the inputs of this model (one question text, a seed that is the
\* d-th random draw, an epoch number) it is represented by this table, which
\* gives different inputs different digests.
sha256(combined) ==
  LET x == combined.seed.v.n * 8 + combined.n
  IN  [i \in 1..12 |-> (x * (2 * i + 1) + 11 * i + (IF combined.q = "What now?" THEN 0 ELSE 5)) % 256]

\* generateDeterministicReading(question, seed, epochNumber)
generateDeterministicReadingMutClock(q, seed, n) ==
  ReadingFromDigest(sha256(Combined(q, seed, n + clock)))

generateDeterministicReading(q, seed, n) ==
  LET combined == Combined(q, seed, n)
      hash == sha256(combined)
  IN  ReadingFromDigest(hash)

\* consultOracle(question, seed, epochNumber)
consultOracle(q, seed, n) == generateDeterministicReading(q, seed, n)

\* ----------------------------------------------------- forge bridge
\* characters in a string
StrLen(s) == IF s.t = "hexstr" THEN 2 * SeedBytes ELSE s.len

\* s.substring(0, n)
Substring(s, n) ==
  IF n >= StrLen(s) THEN s ELSE [t |-> "substr", of |-> s, len |-> n]

\* the object invokeQuantumForge serialises into the --query argument
ForgePayloadMutFullSeed(q, seed, n, reading, now) ==
  [query |-> q, timestamp |-> Time(now),
   context |-> [seed |-> seed, epoch |-> n,
                resonance |-> reading.resonance, pattern |-> reading.pattern]]

ForgePayload(q, seed, n, reading, now) ==
  [query |-> q, timestamp |-> Time(now),
   context |-> [seed |-> Substring(seed, 8), epoch |-> n,
                resonance |-> reading.resonance, pattern |-> reading.pattern]]

\* how a call of invokeQuantumForge ends: the script is not there; the process
\* cannot be started; it exits with a code other than 0; its output is not
\* JSON; the timer fires first; it prints a JSON object without harmony_index,
\* with harmony_index alone, or with every field the bridge reads
ForgeOutcomes ==
  {"no-script", "spawn-error", "exit-nonzero", "bad-json", "timeout",
   "no-harmony", "harmony-bare", "harmony-full"}

\* what the promise resolves with (Null for null); a spawn error is an 'error'
\* event with no listener: it is thrown outside the promise
ForgeResolved(outcome) ==
  CASE outcome = "no-harmony" -> [t |-> "forgeResult", harmony |-> FALSE, full |-> FALSE]
    [] outcome = "harmony-bare" -> [t |-> "forgeResult", harmony |-> TRUE, full |-> FALSE]
    [] outcome = "harmony-full" -> [t |-> "forgeResult", harmony |-> TRUE, full |-> TRUE]
    [] OTHER -> Null

\* the merge of the bridge's consultQuantumOracle: fields are added to the
\* reading and its mode is set
EnhanceMutOverwrite(reading, forgeResult) ==
  IF forgeResult = Null \/ ~forgeResult.harmony THEN reading
  ELSE [reading EXCEPT !.mode = "quantum-enhanced", !.resonance = 100,
                       !.pattern = "The Forge"] @@
       [harmonyIndex |-> 73, quantumConfidence |-> 0, quantumTrend |-> "stable",
        forgeRecommendations |-> <<>>]

Enhance(reading, forgeResult) ==
  IF forgeResult = Null \/ ~forgeResult.harmony THEN reading
  ELSE LET merged ==
             [reading EXCEPT !.mode = "quantum-enhanced"] @@
             [harmonyIndex |-> 73,
              quantumConfidence |-> IF forgeResult.full THEN 88 ELSE 0,
              quantumTrend |-> IF forgeResult.full THEN "rising" ELSE "stable",
              forgeRecommendations |-> IF forgeResult.full THEN <<"rest">> ELSE <<>>]
       IN  IF forgeResult.full THEN merged @@ [quantumInsight |-> "insight"] ELSE merged

\* consultQuantumOracle of the bridge, given how invokeQuantumForge ended
bridgeConsultQuantumOracle(q, seed, n, outcome) ==
  Enhance(generateDeterministicReading(q, seed, n), ForgeResolved(outcome))

\* whether consultQuantumOracle(question, seed, epochNumber, useQuantum) calls
\* the bridge
CallsForgeMutAlways(useQuantum, available) == available

CallsForge(useQuantum, available) == useQuantum /\ available

\* consultQuantumOracle(question, seed, epochNumber, useQuantum) of the program
consultQuantumOracle(q, seed, n, useQuantum, available, outcome) ==
  LET reading == consultOracle(q, seed, n)
  IN  IF CallsForge(useQuantum, available)
      THEN bridgeConsultQuantumOracle(q, seed, n, outcome)
      ELSE reading

\* ------------------------------------------------------------------ state
\* ------------------------------------------------------- soul statistics
RECURSIVE SumOf(_)
SumOf(xs) == IF xs = <<>> THEN 0 ELSE Head(xs) + SumOf(Tail(xs))

\* sum / soul.epochs.length as the pair of its numerator and denominator
Average(xs) == [num |-> SumOf(xs), den |-> Len(xs)]

\* the statistics getSoulStats computes from soul.epochs
computeStats(soul) ==
  LET readings == [i \in 1..Len(soul.epochs) |-> soul.epochs[i].reading]
      field(f) == [i \in 1..Len(readings) |-> readings[i][f]]
      patterns == {readings[i].pattern : i \in 1..Len(readings)}
  IN  [t |-> "stats",
       avgResonance |-> Average(field("resonance")),
       avgClarity |-> Average(field("clarity")),
       avgFlux |-> Average(field("flux")),
       avgEmergence |-> Average(field("emergence")),
       patternCount |-> [p \in patterns |->
                           Cardinality({i \in 1..Len(readings) : readings[i].pattern = p})]]

\* `${soul.name}_${soul.epochs.length}`
cacheKey(soul) == soul.name \o "_" \o ToString(Len(soul.epochs))

\* getSoulStats(soul) with the Map as it is: what it returns and the Map after
getSoulStats(soul, cache) ==
  IF cacheKey(soul) \in DOMAIN cache
  THEN [stats |-> cache[cacheKey(soul)], cache |-> cache]
  ELSE IF Len(soul.epochs) = 0 THEN [stats |-> Null, cache |-> cache]
  ELSE [stats |-> computeStats(soul), cache |-> Put(cache, cacheKey(soul), computeStats(soul))]

\* invalidateStatsCache(soulName): statsCache.clear()
invalidateStatsCache(soulName, cache) == <<>>

\* souls.forEach(soul => getSoulStats(soul)) over the souls named in names
RECURSIVE listStats(_, _, _)
listStats(registry, names, cache) ==
  IF names = {} THEN [stats |-> <<>>, cache |-> cache]
  ELSE LET name == CHOOSE x \in names : TRUE
           r == getSoulStats(registry.own[name], cache)
           rest == listStats(registry, names \ {name}, r.cache)
       IN  [stats |-> Put(rest.stats, name, r.stats), cache |-> rest.cache]

\* soul.epochs.length + 1
EpochNumberMutLength(soul) == Len(soul.epochs)

EpochNumber(soul) == Len(soul.epochs) + 1

\* soul.epochs.push({number, question, timestamp, reading}) and the update of
\* soul.lastEpoch
pushEpochMutReplaceLast(soul, number, q, now, reading) ==
  LET epoch == [number |-> number, question |-> q, timestamp |-> Time(now), reading |-> reading]
  IN  [soul EXCEPT !.epochs = IF @ = <<>> THEN <<epoch>>
                               ELSE SubSeq(@, 1, Len(@) - 1) \o <<epoch, epoch>>,
                   !.lastEpoch = Time(now)]

pushEpochMutNoLastEpoch(soul, number, q, now, reading) ==
  LET epoch == [number |-> number, question |-> q, timestamp |-> Time(now), reading |-> reading]
  IN  [soul EXCEPT !.epochs = Append(@, epoch)]

pushEpoch(soul, number, q, now, reading) ==
  LET epoch == [number |-> number, question |-> q, timestamp |-> Time(now), reading |-> reading]
  IN  [soul EXCEPT !.epochs = Append(@, epoch), !.lastEpoch = Time(now)]

\* ------------------------------------------------------------------ state
VARIABLES
  fs,                  \* path -> file content
  draws,               \* crypto.randomBytes calls made so far
  encLog,              \* history: the encrypt calls made, in order
  pc,                  \* multi-user program: login, main, soul, exit, crashed
  username, key,       \* mainMenu's locals after a login
  soulRegistry,        \* mainMenu's in-memory registry (Null outside a session)
  selected,            \* name of the soul runSoulMenu works on
  quantumMode,         \* runSoulMenu's local
  isQuantumAvailable,  \* module-level flag set by the availability probe
  last,                \* history: the last handler run and what it returned
  reg,                 \* history: username -> password and record of its registration
  lastSaved,           \* history: username -> registry of the last successful saveSouls
  lpc, lkey, lregistry,\* single-passphrase program: position, key, registry
  lselected, lquantum, \* single-passphrase program: runSoulMenu's soul and quantumMode
  statsCache,          \* the module-level Map of getSoulStats: cache key -> statistics
  forgeCall,           \* one invokeQuantumForge call: its child process, timer and promise
  oracle,              \* generateDeterministicReading calls made on their own
  faulted,             \* history: a write has failed or a file was changed from outside (single-fault runs)
  cipher               \* an envelope under test: encrypt, tamper, decrypt

vars == <<fs, draws, clock, encLog, pc, username, key, soulRegistry, selected, quantumMode,
          isQuantumAvailable, last, reg, lastSaved, lpc, lkey, lregistry, lselected, lquantum,
          statsCache, foldCase, forgeCall, oracle, faulted, cipher>>

sessionVars == <<username, key, soulRegistry, selected, quantumMode>>
legacyVars == <<lpc, lkey, lregistry, lselected, lquantum>>
otherVars == <<foldCase, forgeCall, oracle>>
programVars == <<fs, draws, encLog, pc, sessionVars, isQuantumAvailable, last, reg, lastSaved,
                 legacyVars, statsCache, faulted, cipher>>

ForgeIdle ==
  [phase |-> "idle", configured |-> 0, elapsed |-> 0, child |-> "none", timer |-> FALSE,
   result |-> Undefined, settled |-> 0, firstEvent |-> "none", firstOutcome |-> Undefined]
OracleIdle ==
  [op |-> "none", first |-> Null, call |-> Null, reading |-> Null, legacy |-> Null, at |-> 0,
   hash |-> <<>>, patternIndex |-> 0, messageIndex |-> 0]

CipherIdle ==
  [phase |-> "idle", pt |-> Str(<<>>), key |-> Null, made |-> Null, env |-> Null,
   dkey |-> Null, out |-> Null]

\* the state after construction, but for the kind of file system
InitProgram ==
  /\ fs = [p \in Paths |-> Absent]
  /\ draws = 0
  /\ clock = 0
  /\ encLog = <<>>
  /\ pc = "login"
  /\ username = ""
  /\ key = Null
  /\ soulRegistry = Null
  /\ selected = ""
  /\ quantumMode = FALSE
  /\ isQuantumAvailable \in BOOLEAN
  /\ last = [op |-> "none"]
  /\ reg = <<>>
  /\ lastSaved = <<>>
  /\ lpc = "off"
  /\ lkey = Null
  /\ lregistry = Null
  /\ lselected = ""
  /\ lquantum = FALSE
  /\ statsCache = <<>>
  /\ forgeCall = ForgeIdle
  /\ oracle = OracleIdle
  /\ faulted = FALSE
  /\ cipher = CipherIdle

Init == InitProgram /\ foldCase = FALSE

ClearSession ==
  /\ username' = ""
  /\ key' = Null
  /\ soulRegistry' = Null
  /\ selected' = ""
  /\ quantumMode' = FALSE

\* ------------------------------------------------ login screen (loginScreen)
\* [2] Create New Account: askUsername, askUserPassword, registerUser, then
\* the login screen again
Register(u, p, wr) ==
  /\ wr # "ok" => ~faulted
  /\ faulted' = (faulted \/ wr # "ok")
  /\ pc = "login"
  /\ IF ~askUsername(u)
     THEN /\ wr = "ok"
          /\ last' = [op |-> "registerRejected", user |-> u]
          /\ UNCHANGED <<fs, draws, clock, encLog, reg>>
     ELSE LET r == registerUser(u, p, fs[USERS_FILE], draws, clock + 1, wr)
          IN  /\ fs' = [fs EXCEPT ![USERS_FILE] = r.file]
              /\ draws' = r.draws
              /\ clock' = IF r.draws > draws THEN clock + 1 ELSE clock
              /\ encLog' = encLog \o r.enc
              /\ last' = [op |-> "register", user |-> u, pw |-> p, res |-> r.res, before |-> fs,
                          known |-> DOMAIN reg, wr |-> wr]
              /\ reg' = IF Succeeded(r.res)
                        THEN Put(reg, u, [pw |-> p, rec |-> Get(loadUsers(r.file), u)])
                        ELSE reg
  /\ UNCHANGED <<pc, sessionVars, isQuantumAvailable, lastSaved, legacyVars, cipher, statsCache, otherVars>>

\* [1] Login: authenticateUser; on success mainMenu derives the key and loads
\* the user's registry; on failure the user retries or leaves; an exception
\* reaches the entry point's catch, which exits the process
Login(u, p, retry) ==
  /\ pc = "login"
  /\ IF ~askUsername(u)
     THEN /\ retry
          /\ last' = [op |-> "loginRejected", user |-> u]
          /\ UNCHANGED <<pc, sessionVars>>
     ELSE LET a == authenticateUser(u, p, fs[USERS_FILE])
              k == deriveEncryptionKey(p, a.encryptionSalt)
              r == loadSouls(k, u, fs)
          IN  /\ last' = [op |-> "login", user |-> u, pw |-> p, res |-> a, before |-> fs,
                          loaded |-> IF Succeeded(a) THEN r ELSE Null]
              /\ IF a = Thrown
                 THEN pc' = "crashed" /\ UNCHANGED sessionVars
                 ELSE IF ~Succeeded(a)
                 THEN pc' = (IF retry THEN "login" ELSE "exit") /\ UNCHANGED sessionVars
                 ELSE IF r = Null
                 THEN pc' = "exit" /\ UNCHANGED sessionVars
                 ELSE /\ pc' = "main"
                      /\ username' = u
                      /\ key' = k
                      /\ soulRegistry' = r
                      /\ UNCHANGED <<selected, quantumMode>>
  /\ UNCHANGED <<fs, draws, clock, encLog, isQuantumAvailable, reg, lastSaved, legacyVars, faulted, cipher, statsCache, otherVars>>

\* displayBanner(): the lines printed, given the module's flag
displayBanner(flag) ==
  <<"OINIO SOUL SYSTEM">>
    \o (IF flag THEN <<"Quantum Forge Bridge: ACTIVE">> ELSE <<>>)

\* a new process is started after the last one ended: module state is
\* initialised again, the files stay.  Loading the module sets the flag to
\* false and starts the probe; the probe's then-callback is a microtask, which
\* runs only when the synchronous code has finished, and that code goes on into
\* mainMenu() up to its first await, past displayBanner().  The flag has the
\* probe's value by the time the login screen reads its first line.
Start(available) ==
  /\ pc \in {"exit", "crashed"}
  /\ pc' = "login"
  /\ LET atLoad == FALSE
     IN  /\ last' = [op |-> "start", probe |-> available, banner |-> displayBanner(atLoad)]
         /\ isQuantumAvailable' = available
  /\ statsCache' = <<>>
  /\ UNCHANGED <<fs, draws, clock, encLog, sessionVars, reg, lastSaved, legacyVars, faulted, cipher, otherVars>>

\* ------------------------------------------------------ main menu (mainMenu)
\* [1] Create New Soul: askSoulName accepts a non-empty name of at most 50
\* characters that Object.keys(soulRegistry) does not hold; then createSoul,
\* the assignment into the registry and saveSouls, whose result is ignored
CreateSoul(name, wr) ==
  /\ wr # "ok" => ~faulted
  /\ faulted' = (faulted \/ wr # "ok")
  /\ pc = "main"
  /\ IF ~askSoulName(name, ObjectKeys(soulRegistry))
     THEN /\ wr = "ok"
          /\ last' = [op |-> "createSoulRejected", name |-> name, registry |-> soulRegistry]
          /\ UNCHANGED <<soulRegistry, fs, encLog, lastSaved, draws, clock>>
     ELSE LET newSoul == createSoul(name, draws + 1, clock + 1)
              registry == Set(soulRegistry, name, newSoul)
              sv == saveSouls(registry, key, username, fs, draws + 2, wr)
          IN  /\ soulRegistry' = registry
              /\ fs' = sv.files
              /\ encLog' = encLog \o sv.enc
              /\ lastSaved' = IF sv.ok
                               THEN Put(lastSaved, username, [own |-> registry.own, key |-> key])
                               ELSE lastSaved
              /\ last' = [op |-> "createSoul", name |-> name, saved |-> sv.ok, before |-> fs,
                          registry |-> soulRegistry,
                          output |-> (IF sv.ok THEN <<>> ELSE <<"Failed to save souls">>)
                                       \o <<"Soul created">>]
              /\ draws' = draws + 2
              /\ clock' = clock + 1
  /\ UNCHANGED <<pc, username, key, selected, quantumMode, isQuantumAvailable, reg,
                 legacyVars, cipher, statsCache, otherVars>>

\* [2] Select Existing Soul: one of Object.keys(soulRegistry); runSoulMenu
\* starts with quantumMode = false
SelectSoul(name) ==
  /\ pc = "main"
  /\ name \in ObjectKeys(soulRegistry)
  /\ pc' = "soul"
  /\ selected' = name
  /\ quantumMode' = FALSE
  /\ last' = [op |-> "selectSoul", name |-> name]
  /\ UNCHANGED <<fs, draws, clock, encLog, username, key, soulRegistry, isQuantumAvailable, reg,
                 lastSaved, legacyVars, faulted, cipher, statsCache, otherVars>>

\* [L] Logout: return mainMenu(), which shows the login screen again
Logout ==
  /\ pc = "main"
  /\ pc' = "login"
  /\ ClearSession
  /\ last' = [op |-> "logout"]
  /\ UNCHANGED <<fs, draws, clock, encLog, isQuantumAvailable, reg, lastSaved, legacyVars, faulted, cipher, statsCache, otherVars>>

\* [5] Exit
Exit ==
  /\ pc = "main"
  /\ pc' = "exit"
  /\ ClearSession
  /\ last' = [op |-> "exit"]
  /\ UNCHANGED <<fs, draws, clock, encLog, isQuantumAvailable, reg, lastSaved, legacyVars, faulted, cipher, statsCache, otherVars>>

\* ---------------------------------------------------- soul menu (runSoulMenu)
\* [1] New Epoch: the epoch number is epochs.length + 1; the reading is pushed,
\* lastEpoch set and the registry saved (the result of saveSouls is ignored)
NewEpoch(q, outcome, wr) ==
  /\ wr # "ok" => ~faulted
  /\ faulted' = (faulted \/ wr # "ok")
  /\ pc = "soul"
  /\ (outcome = "not-called") = ~CallsForge(quantumMode, isQuantumAvailable)
  /\ LET soul == soulRegistry.own[selected]
         epochNumber == EpochNumber(soul)
         payload == IF outcome \in {"not-called", "no-script"} THEN Null
                    ELSE ForgePayload(q, soul.seed, epochNumber,
                                      generateDeterministicReading(q, soul.seed, epochNumber),
                                      clock)
         reading == consultQuantumOracle(q, soul.seed, epochNumber, quantumMode,
                                         isQuantumAvailable, outcome)
         soul2 == pushEpoch(soul, epochNumber, q, clock + 1, reading)
         registry == [soulRegistry EXCEPT !.own[selected] = soul2]
         sv == saveSouls(registry, key, username, fs, draws + 1, wr)
     IN  /\ Len(soul.epochs) < MaxEpochs
         /\ IF outcome = "spawn-error"
            THEN \* the 'error' event of the child process has no listener: the
                 \* exception ends the process before the epoch is pushed
                 /\ wr = "ok"
                 /\ pc' = "crashed"
                 /\ ClearSession
                 /\ last' = [op |-> "newEpoch", name |-> selected, saved |-> FALSE,
                             before |-> fs, forge |-> outcome, payload |-> payload,
                             q |-> q, seed |-> soul.seed, number |-> epochNumber,
                             reading |-> Null, appended |-> FALSE,
                             quantum |-> quantumMode, output |-> <<>>]
                 /\ UNCHANGED <<fs, draws, clock, encLog, lastSaved, statsCache>>
            ELSE /\ soulRegistry' = registry
                 /\ statsCache' = invalidateStatsCache(soul.name, statsCache)
                 /\ fs' = sv.files
                 /\ encLog' = encLog \o sv.enc
                 /\ lastSaved' = IF sv.ok
                                  THEN Put(lastSaved, username, [own |-> registry.own, key |-> key])
                                  ELSE lastSaved
                 /\ last' = [op |-> "newEpoch", name |-> selected, saved |-> sv.ok,
                             before |-> fs, forge |-> outcome, payload |-> payload,
                             q |-> q, seed |-> soul.seed, number |-> epochNumber,
                             reading |-> reading, appended |-> TRUE,
                             quantum |-> quantumMode,
                             output |-> <<"Saving...">>
                                          \o (IF sv.ok THEN <<>> ELSE <<"Failed to save souls">>)
                                          \o <<"Saving done">>]
                 /\ draws' = draws + 1
                 /\ clock' = clock + 1
                 /\ UNCHANGED <<pc, username, key, selected, quantumMode>>
  /\ UNCHANGED <<isQuantumAvailable, reg, legacyVars, cipher, otherVars>>

\* [3] Statistics of the soul menu
ViewStats ==
  /\ pc = "soul"
  /\ LET r == getSoulStats(soulRegistry.own[selected], statsCache)
     IN  /\ statsCache' = r.cache
         /\ last' = [op |-> "viewStats", user |-> username, name |-> selected, stats |-> r.stats]
  /\ UNCHANGED <<fs, draws, clock, encLog, pc, sessionVars, isQuantumAvailable, reg, lastSaved,
                 legacyVars, faulted, cipher, otherVars>>

\* [3] List All Souls of the main menu
ListSouls ==
  /\ pc = "main"
  /\ LET r == listStats(soulRegistry, ObjectKeys(soulRegistry), statsCache)
     IN  /\ statsCache' = r.cache
         /\ last' = [op |-> "listSouls", user |-> username, stats |-> r.stats]
  /\ UNCHANGED <<fs, draws, clock, encLog, pc, sessionVars, isQuantumAvailable, reg, lastSaved,
                 legacyVars, faulted, cipher, otherVars>>

\* [Q] Toggle Quantum Mode: toggles only while the forge was detected, and
\* otherwise prints that the forge is not available
ToggleQuantum ==
  /\ pc = "soul"
  /\ quantumMode' = IF isQuantumAvailable THEN ~quantumMode ELSE quantumMode
  /\ last' = [op |-> "toggleQuantum", available |-> isQuantumAvailable]
  /\ UNCHANGED <<fs, draws, clock, encLog, pc, username, key, soulRegistry, selected,
                 isQuantumAvailable, reg, lastSaved, legacyVars, faulted, cipher, statsCache, otherVars>>

\* [4] Return to Main Menu: runSoulMenu returns and mainMenu does
\* return mainMenu(), which starts over at the login screen
ReturnToMain ==
  /\ pc = "soul"
  /\ pc' = "login"
  /\ ClearSession
  /\ last' = [op |-> "returnToMain", user |-> username, key |-> key, registry |-> soulRegistry]
  /\ UNCHANGED <<fs, draws, clock, encLog, isQuantumAvailable, reg, lastSaved, legacyVars, faulted, cipher, statsCache, otherVars>>

\* the multi-user program on a disk that stores what is written
Step ==
  \/ \E u \in TypedUsernames, p \in Passwords : Register(u, p, "ok")
  \/ \E u \in TypedUsernames, p \in Passwords, retry \in BOOLEAN : Login(u, p, retry)
  \/ \E a \in BOOLEAN : Start(a)
  \/ \E n \in TypedSoulNames : CreateSoul(n, "ok")
  \/ \E n \in SoulNames : SelectSoul(n)
  \/ Logout
  \/ Exit
  \/ \E q \in Questions, f \in ForgeOutcomes \cup {"not-called"} : NewEpoch(q, f, "ok")
  \/ ToggleQuantum
  \/ ReturnToMain
  \/ ViewStats
  \/ ListSouls

\* runs are cut off after MaxDraws random draws
Next == Step /\ draws' <= MaxDraws

Spec == Init /\ [][Next]_vars

\* two users, each with one soul, in one process: registrations, logins,
\* epochs, statistics views, listings and logouts in any order
StatsUsers == {"alice", "bob"}

StatsStep ==
  \/ \E u \in StatsUsers : Register(u, "pw-one-1", "ok")
  \/ \E u \in StatsUsers : Login(u, "pw-one-1", TRUE)
  \/ CreateSoul("Self", "ok")
  \/ SelectSoul("Self")
  \/ \E q \in Questions : NewEpoch(q, "not-called", "ok")
  \/ ViewStats
  \/ ListSouls
  \/ ReturnToMain
  \/ Logout

\* the program on either kind of file system, with two users whose names
\* differ only in case
InitFold == InitProgram /\ foldCase \in BOOLEAN

FoldStep ==
  \/ \E u \in FoldUsers : Register(u, "pw-one-1", "ok")
  \/ \E u \in FoldUsers : Login(u, "pw-one-1", TRUE)
  \/ CreateSoul("Self", "ok")
  \/ SelectSoul("Self")
  \/ \E q \in Questions : NewEpoch(q, "not-called", "ok")
  \/ ReturnToMain
  \/ Logout

NextFold == FoldStep /\ draws' <= MaxDraws

SpecFold == InitFold /\ [][NextFold]_vars

NextStats == StatsStep /\ draws' <= MaxStatsDraws

SpecStats == Init /\ [][NextStats]_vars

\* ------------------------------------------------ files changed from outside
\* a bundle as a save function wrote it: three hex strings, the tag genuine
Pristine(file) ==
  /\ file.t = "bundle"
  /\ file.iv.t = "hexstr" /\ file.authTag.t = "hexstr" /\ file.data.t = "hexstr"
  /\ file.data.v.t = "ct"
  /\ file.authTag.v = GcmTag(file.data.v.k, file.iv.v, file.data.v)

\* a ciphertext that differs from ct in one bit
FlipData(ct) == [ct EXCEPT !.flip = TRUE]

TamperKinds ==
  {"garbage", "nonobject", "drop-iv", "number-tag", "array-fields", "nonhex-iv",
   "flip-tag", "short-tag", "flip-data"}

\* what an editor, a disk error or another program leaves of a pristine bundle
TamperFile(file, kind) ==
  CASE kind = "garbage" -> Garbage
    [] kind = "nonobject" -> [t |-> "jsonval"]
    [] kind = "drop-iv" -> [file EXCEPT !.iv = Missing]
    [] kind = "number-tag" -> [file EXCEPT !.authTag = [t |-> "number"]]
    [] kind = "array-fields" ->
         [file EXCEPT !.iv = [t |-> "array", v |-> file.iv.v],
                      !.authTag = [t |-> "array", v |-> file.authTag.v],
                      !.data = [t |-> "array", v |-> file.data.v]]
    [] kind = "nonhex-iv" -> [file EXCEPT !.iv = [t |-> "str"]]
    [] kind = "flip-tag" -> [file EXCEPT !.authTag.v.flip = TRUE]
    [] kind = "short-tag" -> [file EXCEPT !.authTag.v.len = 4]
    [] OTHER -> [file EXCEPT !.data.v = FlipData(@)]

Tamper(path, kind) ==
  /\ ~faulted
  /\ faulted' = TRUE
  /\ Pristine(fs[path])
  /\ fs' = [fs EXCEPT ![path] = TamperFile(@, kind)]
  /\ last' = [op |-> "tamper", path |-> path, kind |-> kind]
  /\ UNCHANGED <<draws, clock, encLog, pc, sessionVars, isQuantumAvailable, reg, lastSaved,
                 legacyVars, cipher, statsCache, otherVars>>

MultiUserPaths == {USERS_FILE} \cup {getSoulsFilePath(u) : u \in Usernames}

\* the multi-user program on a disk whose writes can fail and whose files can
\* be changed from outside
EnvStep ==
  \/ \E u \in Usernames, p \in Passwords, wr \in WriteOutcomes : Register(u, p, wr)
  \/ \E u \in Usernames, p \in Passwords, retry \in BOOLEAN : Login(u, p, retry)
  \/ \E a \in BOOLEAN : Start(a)
  \/ \E n \in SoulNames, wr \in WriteOutcomes : CreateSoul(n, wr)
  \/ \E n \in SoulNames : SelectSoul(n)
  \/ Logout
  \/ Exit
  \/ \E q \in Questions, f \in ForgeOutcomes \cup {"not-called"}, wr \in WriteOutcomes :
       NewEpoch(q, f, wr)
  \/ ToggleQuantum
  \/ ReturnToMain
  \/ ViewStats
  \/ ListSouls
  \/ \E path \in MultiUserPaths, kind \in TamperKinds : Tamper(path, kind)

NextEnv == EnvStep /\ draws' <= MaxEnvDraws

SpecEnv == Init /\ [][NextEnv]_vars

\* ------------------------------- single-passphrase program (oinio-system.js)
\* loadSouls(key) of the single-passphrase program: no check of the bundle's
\* shape; whatever throws (JSON.parse, a property of null, Buffer.from of a
\* non-string non-array) is caught and gives null
loadSoulsLegacyMutFailIsEmpty(k, files) ==
  LET file == files[LEGACY_SOULS_FILE]
  IN  IF ~fileExists(file) THEN EmptyObject
      ELSE IF file.t # "bundle" THEN EmptyObject
      ELSE LET iv == BufferFrom(file.iv)
               authTag == BufferFrom(file.authTag)
               encrypted == BufferFrom(file.data)
           IN  IF iv = Null \/ authTag = Null \/ encrypted = Null THEN EmptyObject
               ELSE LET plaintext == decrypt(iv, authTag, encrypted, k)
                    IN  IF Falsy(plaintext) THEN EmptyObject ELSE JSONparse(plaintext)

loadSoulsLegacy(k, files) ==
  LET file == files[LEGACY_SOULS_FILE]
  IN  IF ~fileExists(file) THEN EmptyObject
      ELSE IF file.t # "bundle" THEN Null
      ELSE LET iv == BufferFrom(file.iv)
               authTag == BufferFrom(file.authTag)
               encrypted == BufferFrom(file.data)
           IN  IF iv = Null \/ authTag = Null \/ encrypted = Null THEN Null
               ELSE LET plaintext == decrypt(iv, authTag, encrypted, k)
                    IN  IF Falsy(plaintext) THEN Null ELSE JSONparse(plaintext)

\* mainMenu up to its loop: askPassphrase, deriveKey, loadSouls; a null registry
\* ends the program
LegacyStart(passphrase) ==
  /\ lpc = "off"
  /\ LET k == deriveKey(passphrase)
         registry == loadSoulsLegacy(k, fs)
     IN  /\ last' = [op |-> "legacyStart", pw |-> passphrase, before |-> fs, loaded |-> registry]
         /\ IF registry = Null
            THEN lpc' = "off" /\ lkey' = Null /\ lregistry' = Null
            ELSE lpc' = "main" /\ lkey' = k /\ lregistry' = registry
  /\ UNCHANGED <<lselected, lquantum>>
  /\ UNCHANGED <<fs, draws, clock, encLog, pc, sessionVars, isQuantumAvailable, reg, lastSaved,
                 faulted, cipher, statsCache, otherVars>>

\* [1] Create New Soul of the single-passphrase program
LegacyCreateSoul(name, wr) ==
  /\ wr # "ok" => ~faulted
  /\ faulted' = (faulted \/ wr # "ok")
  /\ lpc = "main"
  /\ name \notin ObjectKeys(lregistry)
  /\ LET newSoul == createSoul(name, draws + 1, clock + 1)
         registry == Set(lregistry, name, newSoul)
         sv == saveSouls(registry, lkey, "", fs, draws + 2, wr)
     IN  /\ lregistry' = registry
         /\ fs' = sv.files
         /\ encLog' = encLog \o sv.enc
         /\ last' = [op |-> "legacyCreateSoul", name |-> name, saved |-> sv.ok, before |-> fs]
  /\ draws' = draws + 2
  /\ clock' = clock + 1
  /\ UNCHANGED <<pc, sessionVars, isQuantumAvailable, reg, lastSaved, lpc, lkey, lselected, lquantum,
                 cipher, statsCache, otherVars>>

\* [2] Select Soul of the single-passphrase program: runSoulMenu starts on the
\* chosen soul with quantumMode false
LegacySelectSoul(name) ==
  /\ lpc = "main"
  /\ name \in ObjectKeys(lregistry)
  /\ lpc' = "soul"
  /\ lselected' = name
  /\ lquantum' = FALSE
  /\ last' = [op |-> "legacySelectSoul", name |-> name]
  /\ UNCHANGED <<lkey, lregistry>>
  /\ UNCHANGED <<fs, draws, clock, encLog, pc, sessionVars, isQuantumAvailable, reg, lastSaved,
                 faulted, cipher, statsCache, otherVars>>

\* [1] New Epoch of the single-passphrase program
LegacyNewEpoch(q, outcome, wr) ==
  /\ wr # "ok" => ~faulted
  /\ faulted' = (faulted \/ wr # "ok")
  /\ lpc = "soul"
  /\ (outcome = "not-called") = ~CallsForge(lquantum, isQuantumAvailable)
  /\ LET soul == lregistry.own[lselected]
         epochNumber == EpochNumber(soul)
         reading == consultQuantumOracle(q, soul.seed, epochNumber, lquantum,
                                         isQuantumAvailable, outcome)
         soul2 == pushEpoch(soul, epochNumber, q, clock + 1, reading)
         registry == [lregistry EXCEPT !.own[lselected] = soul2]
         sv == saveSouls(registry, lkey, "", fs, draws + 1, wr)
     IN  /\ Len(soul.epochs) < MaxEpochs
         /\ IF outcome = "spawn-error"
            THEN /\ wr = "ok"
                 /\ lpc' = "off" /\ lkey' = Null /\ lregistry' = Null
                 /\ lselected' = "" /\ lquantum' = FALSE
                 /\ last' = [op |-> "legacyNewEpoch", name |-> lselected, saved |-> FALSE,
                             before |-> fs, forge |-> outcome, reading |-> Null,
                             appended |-> FALSE]
                 /\ UNCHANGED <<fs, draws, clock, encLog>>
            ELSE /\ lregistry' = registry
                 /\ fs' = sv.files
                 /\ encLog' = encLog \o sv.enc
                 /\ last' = [op |-> "legacyNewEpoch", name |-> lselected, saved |-> sv.ok,
                             before |-> fs, forge |-> outcome, reading |-> reading,
                             appended |-> TRUE]
                 /\ draws' = draws + 1
                 /\ clock' = clock + 1
                 /\ UNCHANGED <<lpc, lkey, lselected, lquantum>>
  /\ UNCHANGED <<pc, sessionVars, isQuantumAvailable, reg, lastSaved, cipher, statsCache, otherVars>>

\* [Q] Toggle Quantum Mode of the single-passphrase program
LegacyToggleQuantum ==
  /\ lpc = "soul"
  /\ lquantum' = IF isQuantumAvailable THEN ~lquantum ELSE lquantum
  /\ last' = [op |-> "legacyToggleQuantum"]
  /\ UNCHANGED <<lpc, lkey, lregistry, lselected>>
  /\ UNCHANGED <<fs, draws, clock, encLog, pc, sessionVars, isQuantumAvailable, reg, lastSaved,
                 faulted, cipher, statsCache, otherVars>>

\* [4] Return to Main Menu: runSoulMenu returns and mainMenu starts over, asking
\* for the passphrase again
LegacyReturnToMain ==
  /\ lpc = "soul"
  /\ lpc' = "off" /\ lkey' = Null /\ lregistry' = Null
  /\ lselected' = "" /\ lquantum' = FALSE
  /\ last' = [op |-> "legacyReturnToMain"]
  /\ UNCHANGED <<fs, draws, clock, encLog, pc, sessionVars, isQuantumAvailable, reg, lastSaved,
                 faulted, cipher, statsCache, otherVars>>

\* [5] Exit
LegacyExit ==
  /\ lpc = "main"
  /\ lpc' = "off" /\ lkey' = Null /\ lregistry' = Null
  /\ UNCHANGED <<lselected, lquantum>>
  /\ last' = [op |-> "legacyExit"]
  /\ UNCHANGED <<fs, draws, clock, encLog, pc, sessionVars, isQuantumAvailable, reg, lastSaved,
                 faulted, cipher, statsCache, otherVars>>

\* the single-passphrase program on a disk whose writes can fail and whose
\* file can be changed from outside
LegacyStep ==
  \/ \E p \in Passwords : LegacyStart(p)
  \/ \E n \in SoulNames, wr \in WriteOutcomes : LegacyCreateSoul(n, wr)
  \/ \E n \in SoulNames : LegacySelectSoul(n)
  \/ \E q \in Questions, f \in ForgeOutcomes \cup {"not-called"}, wr \in WriteOutcomes :
       LegacyNewEpoch(q, f, wr)
  \/ LegacyToggleQuantum
  \/ LegacyReturnToMain
  \/ LegacyExit
  \/ \E kind \in TamperKinds : Tamper(LEGACY_SOULS_FILE, kind)

NextLegacy == LegacyStep /\ draws' <= MaxDraws

SpecLegacy == Init /\ [][NextLegacy]_vars

\* ------------------------------------------- encrypt and decrypt on their own
\* plaintext strings of at most MaxStrLen code units
CodeUnits == {Ch("a"), HS, LS}
Plaintexts == UNION {[1..n -> CodeUnits] : n \in 0..MaxStrLen}
Keys == {deriveKey(p) : p \in Passwords}
EnvelopeTamperKinds == {"flip-data", "flip-tag", "short-tag"}

\* encrypt(plaintext, key)
CipherEncrypt(pt, k) ==
  /\ cipher.phase = "idle"
  /\ draws < MaxDraws
  /\ draws' = draws + 1
  /\ LET e == encrypt(Str(pt), k, draws + 1)
     IN  cipher' = [phase |-> "sealed", pt |-> Str(pt), key |-> k, made |-> e, env |-> e,
                    dkey |-> Null, out |-> Null]
  /\ UNCHANGED <<fs, clock, encLog, pc, sessionVars, isQuantumAvailable, last, reg, lastSaved,
                 legacyVars, faulted, statsCache, otherVars>>

\* the envelope is changed between encrypt and decrypt
CipherTamper(kind) ==
  /\ cipher.phase = "sealed"
  /\ cipher' = [cipher EXCEPT
       !.phase = "tampered",
       !.env = CASE kind = "flip-data" -> [@ EXCEPT !.encrypted = FlipData(@)]
                 [] kind = "flip-tag" -> [@ EXCEPT !.authTag.flip = TRUE]
                 [] OTHER -> [@ EXCEPT !.authTag.len = 4]]
  /\ UNCHANGED <<fs, draws, clock, encLog, pc, sessionVars, isQuantumAvailable, last, reg,
                 lastSaved, legacyVars, faulted, statsCache, otherVars>>

\* decrypt(iv, authTag, encrypted, key)
CipherDecrypt(k) ==
  /\ cipher.phase \in {"sealed", "tampered"}
  /\ cipher' = [cipher EXCEPT
       !.phase = "done",
       !.dkey = k,
       !.out = decrypt(cipher.env.iv, cipher.env.authTag, cipher.env.encrypted, k)]
  /\ UNCHANGED <<fs, draws, clock, encLog, pc, sessionVars, isQuantumAvailable, last, reg,
                 lastSaved, legacyVars, faulted, statsCache, otherVars>>

CipherReset ==
  /\ cipher.phase = "done"
  /\ cipher' = CipherIdle
  /\ UNCHANGED <<fs, draws, clock, encLog, pc, sessionVars, isQuantumAvailable, last, reg,
                 lastSaved, legacyVars, faulted, statsCache, otherVars>>

NextCipher ==
  \/ \E pt \in Plaintexts, k \in Keys : CipherEncrypt(pt, k)
  \/ \E kind \in EnvelopeTamperKinds : CipherTamper(kind)
  \/ \E k \in Keys : CipherDecrypt(k)
  \/ CipherReset

SpecCipher == Init /\ [][NextCipher]_vars

\* ------------------------------------------- one invokeQuantumForge call
\* values of QUANTUM_TIMEOUT_MS: set in the environment to one second, or the
\* default of either configuration module
ConfiguredTimeouts == {1000, QUANTUM_TIMEOUT_MS_DEFAULT, QUANTUM_TIMEOUT_MS_CONFIG_JS}

\* how the child process can close
CloseOutcomes == {"exit-nonzero", "bad-json", "no-harmony", "harmony-bare", "harmony-full"}

\* resolve(value) of the promise: it takes effect only while the promise is
\* pending
Resolve(call, value) ==
  IF call.phase = "pending"
  THEN [call EXCEPT !.phase = "resolved", !.result = value, !.settled = @ + 1]
  ELSE call

\* history: the first of close and timeout and what it resolved with
NoteFirst(call, event, value) ==
  IF call.firstEvent = "none"
  THEN [call EXCEPT !.firstEvent = event, !.firstOutcome = value]
  ELSE call

\* invokeQuantumForge(question, contextData) up to the return of the promise:
\* without the script it resolves null at once; otherwise the process is
\* spawned and the timer is set to 3000 ms, whatever QUANTUM_TIMEOUT_MS says
ForgeInvoke(scriptExists, configured) ==
  /\ forgeCall.phase = "idle"
  /\ forgeCall' =
       IF ~scriptExists
       THEN [ForgeIdle EXCEPT !.phase = "resolved", !.configured = configured,
                              !.result = Null, !.settled = 1,
                              !.firstEvent = "no-script", !.firstOutcome = Null]
       ELSE [ForgeIdle EXCEPT !.phase = "pending", !.configured = configured,
                              !.child = "running", !.timer = TRUE]
  /\ UNCHANGED <<programVars, clock, foldCase, oracle>>

\* the process cannot be started: its 'error' event has no listener and ends
\* the program
ForgeSpawnError ==
  /\ forgeCall.phase = "pending"
  /\ forgeCall.elapsed = 0
  /\ forgeCall.child = "running"
  /\ forgeCall' = [forgeCall EXCEPT !.phase = "crashed", !.child = "none", !.timer = FALSE]
  /\ UNCHANGED <<programVars, clock, foldCase, oracle>>

\* a second passes; a timer that is due fires before more time passes
ForgeTick ==
  /\ forgeCall.phase \in {"pending", "resolved"}
  /\ forgeCall.timer \/ forgeCall.child \in {"running", "killed"}
  /\ forgeCall.timer => forgeCall.elapsed < ForgeTimeoutMs
  /\ forgeCall.elapsed < MaxForgeElapsedMs
  /\ forgeCall' = [forgeCall EXCEPT !.elapsed = @ + 1000]
  /\ UNCHANGED <<programVars, clock, foldCase, oracle>>

\* python.on('close', ...): the process has ended, by itself or killed
ForgeClose(outcome) ==
  /\ forgeCall.child \in {"running", "killed"}
  /\ LET value == IF forgeCall.child = "killed" THEN Null ELSE ForgeResolved(outcome)
         closed == [forgeCall EXCEPT !.child = "closed"]
     IN  forgeCall' = Resolve(NoteFirst(closed, "close", value), value)
  /\ UNCHANGED <<programVars, clock, foldCase, oracle>>

\* python.kill(): a running process is sent SIGTERM; a process that has
\* closed is not affected
KillChildMutNoKill(child) == child

KillChild(child) == IF child = "running" THEN "killed" ELSE child

\* the setTimeout callback: python.kill() and resolve(null)
ForgeTimeout ==
  /\ forgeCall.timer
  /\ forgeCall.elapsed >= ForgeTimeoutMs
  /\ LET fired == [forgeCall EXCEPT !.timer = FALSE, !.child = KillChild(@)]
     IN  forgeCall' = Resolve(NoteFirst(fired, "timeout", Null), Null)
  /\ UNCHANGED <<programVars, clock, foldCase, oracle>>

\* the call is over: promise settled, process gone, timer fired; or the
\* program was started again after it ended
ForgeDone ==
  /\ \/ forgeCall.phase = "resolved" /\ ~forgeCall.timer /\ forgeCall.child \in {"none", "closed"}
     \/ forgeCall.phase = "crashed"
  /\ forgeCall' = ForgeIdle
  /\ UNCHANGED <<programVars, clock, foldCase, oracle>>

NextForge ==
  \/ \E scriptExists \in BOOLEAN, configured \in ConfiguredTimeouts :
       ForgeInvoke(scriptExists, configured)
  \/ ForgeSpawnError
  \/ ForgeTick
  \/ \E outcome \in CloseOutcomes : ForgeClose(outcome)
  \/ ForgeTimeout
  \/ ForgeDone

SpecForge == Init /\ [][NextForge]_vars

\* ------------------------------------------------- the oracle on its own
OracleQuestions == {"What now?", "Why?"}
OracleSeeds == {toHex(randomBytes(d)) : d \in 1..MaxOracleSeeds}

\* digests whose bytes sit at and next to the ends of the ranges the reading is
\* cut from: bytes 0..3 are a, b, a, b, bytes 4..7 are c, c, c, d, bytes 8..11
\* are d, c, d, a
DigestSamples ==
  LET ByteSamples == {0, 99, 100, 255}
      WordSamples == {<<0, 0>>, <<0, 15>>, <<255, 16>>, <<255, 255>>}
  IN  {<<a, b, a, b, w[1], w[1], w[1], w[2], w[2], w[1], w[2], a>> :
         a, b \in ByteSamples, w \in WordSamples}

\* one call generateDeterministicReading(q, seed, n), and the same call made
\* of the copy in oinio-system.js; oracle describes the latest call, and the
\* first call ever made is remembered
OracleConsult(q, seed, n) ==
  /\ LET call == Combined(q, seed, n)
         reading == generateDeterministicReading(q, seed, n)
     IN  oracle' = [OracleIdle EXCEPT
                      !.op = "consult",
                      !.first = IF oracle.first = Null
                                THEN [call |-> call, reading |-> reading, at |-> Time(clock)]
                                ELSE oracle.first,
                      !.call = call,
                      !.reading = reading,
                      !.legacy = consultOracle(q, seed, n),
                      !.at = clock]
  /\ UNCHANGED <<programVars, clock, foldCase, forgeCall>>

\* time passes and the rest of the program runs between two calls
OracleTick ==
  /\ clock < MaxOracleClock
  /\ clock' = clock + 1
  /\ UNCHANGED <<programVars, oracle, foldCase, forgeCall>>

\* the part of generateDeterministicReading after the digest, on a digest hash
OracleRead(hash) ==
  /\ oracle' = [OracleIdle EXCEPT
                  !.op = "read",
                  !.first = oracle.first,
                  !.hash = hash,
                  !.reading = ReadingFromDigest(hash),
                  !.patternIndex = ReadUInt32BEMod(hash, 4, Len(PATTERNS)),
                  !.messageIndex = ReadUInt32BEMod(hash, 8, Len(MESSAGES))]
  /\ UNCHANGED <<programVars, clock, foldCase, forgeCall>>

NextOracle ==
  \/ \E q \in OracleQuestions, seed \in OracleSeeds, n \in 1..MaxEpochs : OracleConsult(q, seed, n)
  \/ OracleTick
  \/ \E hash \in DigestSamples : OracleRead(hash)

SpecOracle == Init /\ [][NextOracle]_vars

\* ------------------------------------------------------------------ claims
\* the credential records a load of users.enc gives
StoredUsers ==
  LET db == loadUsers(fs[USERS_FILE]) IN IF db = Null THEN <<>> ELSE db.own

InvalidCredentials == Failure("Invalid username or password")
UsernameTaken == Failure("Username already exists")

\* C1: once registerUser(u, p) has succeeded, every later authenticateUser(u, p)
\* succeeds and returns the encryptionSalt stored for u at registration, and
\* authenticateUser(u, p') with another password p' fails.
C1_AuthAfterRegister ==
  (last.op = "login" /\ last.user \in DOMAIN reg) =>
    IF last.pw = reg[last.user].pw
    THEN last.res = AuthSuccess(reg[last.user].rec.encryptionSalt)
    ELSE ~Succeeded(last.res)

C1_Witness ==
  /\ last.op = "login"
  /\ last.user \in DOMAIN reg
  /\ Cardinality(DOMAIN reg) = 2
  /\ last.pw = reg[last.user].pw
  /\ Succeeded(last.res)

\* C2: authenticateUser returns the identical failure result (same error value
\* and shape, no exception) when the username is not registered and when it is
\* registered but the password is wrong, for every shape-valid username.
C2_SameFailure ==
  (last.op = "login" /\ (last.user \notin DOMAIN reg \/ last.pw # reg[last.user].pw)) =>
    last.res = InvalidCredentials

\* C3: registerUser(u, p) succeeds for every shape-valid username that was not
\* registered before, fails with the username-taken error exactly when u was
\* registered by an earlier successful register, and then leaves the persisted
\* credential store unchanged.
C3_RegisterOutcome ==
  last.op = "register" =>
    /\ (last.user \notin last.known => Succeeded(last.res))
    /\ (last.res = UsernameTaken <=> last.user \in last.known)
    /\ (last.res = UsernameTaken => fs[USERS_FILE] = last.before[USERS_FILE])

\* C4: after registerUser(u, .) has succeeded the credential record stored for
\* u is the same in every later state: no register, login, logout or soul
\* operation changes or removes it.
C4_RecordImmutable ==
  [][\A u \in DOMAIN StoredUsers :
        u \in DOMAIN StoredUsers' /\ StoredUsers'[u] = StoredUsers[u]]_vars

C4_Witness ==
  /\ last.op = "createSoul"
  /\ Cardinality(DOMAIN StoredUsers) = 2
  /\ \A u \in DOMAIN reg : StoredUsers[u] = reg[u].rec

\* an existing file that cannot be parsed, lacks a string iv, authTag or data,
\* or fails decryption with k
EnvelopeBad(file, k) ==
  /\ fileExists(file)
  /\ \/ file.t # "bundle"
     \/ ~IsString(file.iv) \/ ~IsString(file.authTag) \/ ~IsString(file.data)
     \/ decrypt(BufferFrom(file.iv), BufferFrom(file.authTag), BufferFrom(file.data), k) = Null

LoadFailed == Failure("Failed to load users database")

\* C5: when users.enc exists but cannot be parsed, lacks string iv/authTag/data
\* fields or fails decryption, loadUsers returns null (not the empty store) and
\* registerUser and authenticateUser both fail and leave users.enc as it was.
C5_CorruptStoreFails ==
  (last.op \in {"register", "login"} /\ EnvelopeBad(last.before[USERS_FILE], getUsersDbKey)) =>
    /\ loadUsers(last.before[USERS_FILE]) = Null
    /\ last.res = LoadFailed
    /\ fs[USERS_FILE] = last.before[USERS_FILE]

C5_Witness ==
  /\ last.op = "register"
  /\ DOMAIN reg # {}
  /\ last.before[USERS_FILE].t = "bundle"
  /\ EnvelopeBad(last.before[USERS_FILE], getUsersDbKey)
  /\ last.res = LoadFailed
  /\ fs[USERS_FILE].t = "bundle"

\* what loadSouls owes for a file and a key: the empty registry when the file
\* is absent, null when the envelope is malformed or does not decrypt
LoadSoulsContract(file, k, loaded) ==
  /\ ~fileExists(file) => loaded = EmptyObject
  /\ EnvelopeBad(file, k) => loaded = Null

\* C6: loadSouls (of either program) returns the empty registry when no record
\* file exists, and null, never a registry, when the file exists and the
\* envelope is malformed or decryption with the supplied key fails.
C6_LoadSoulsFailure ==
  /\ last.op = "legacyStart" =>
       LoadSoulsContract(last.before[LEGACY_SOULS_FILE], deriveKey(last.pw), last.loaded)
  /\ (last.op = "login" /\ Succeeded(last.res)) =>
       LoadSoulsContract(last.before[getSoulsFilePath(last.user)],
                         deriveEncryptionKey(last.pw, last.res.encryptionSalt), last.loaded)

\* C7: for every plaintext and every key, decrypt applied with the same key to
\* the iv, authTag and ciphertext that encrypt produced returns the plaintext.
C7_RoundTrip ==
  (cipher.phase = "done" /\ cipher.env = cipher.made /\ cipher.dkey = cipher.key) =>
    cipher.out = cipher.pt

\* a string without unpaired surrogates
RECURSIVE WellFormed(_)
WellFormed(s) ==
  IF s = <<>> THEN TRUE
  ELSE IF s[1] = HS THEN Len(s) >= 2 /\ s[2] = LS /\ WellFormed(SubSeq(s, 3, Len(s)))
  ELSE s[1] # LS /\ WellFormed(Tail(s))

\* C7 (amended): for every plaintext string without unpaired surrogates and
\* every key, decrypt applied with the same key to the iv, authTag and
\* ciphertext that encrypt produced returns exactly the plaintext.
C7_RoundTripWellFormed ==
  (/\ cipher.phase = "done" /\ cipher.env = cipher.made /\ cipher.dkey = cipher.key
   /\ WellFormed(cipher.pt.u)) =>
    cipher.out = cipher.pt

C7_Witness ==
  /\ cipher.phase = "done"
  /\ cipher.env = cipher.made
  /\ cipher.dkey = cipher.key
  /\ cipher.pt = Str(<<HS, LS>>)
  /\ cipher.out = cipher.pt

\* C8: decrypt returns null, never a plaintext, when the ciphertext or the
\* authTag differs from what encrypt produced or the key differs from the key
\* used to encrypt.
C8_TamperDetected ==
  (/\ cipher.phase = "done"
   /\ \/ cipher.env.encrypted # cipher.made.encrypted
      \/ cipher.env.authTag # cipher.made.authTag
      \/ cipher.dkey # cipher.key) =>
    cipher.out = Null

\* C9: no two encrypt calls made with the same key use the same IV, so saving
\* the same registry twice produces two different envelopes.
C9_FreshIv ==
  \A i, j \in 1..Len(encLog) :
    (i # j /\ encLog[i].key = encLog[j].key) =>
      /\ encLog[i].env.iv # encLog[j].env.iv
      /\ encLog[i].env # encLog[j].env

C9_Witness ==
  \E i, j \in 1..Len(encLog) :
    /\ i # j
    /\ encLog[i].key = encLog[j].key
    /\ encLog[i].pt = encLog[j].pt

\* C10: the registry loadSouls returns at the start of a session of u equals
\* the registry last successfully written by saveSouls in an earlier session
\* of u, and the key derived at login is the key that registry was saved with.
C10_Persistence ==
  (last.op = "login" /\ Succeeded(last.res) /\ last.user \in DOMAIN lastSaved) =>
    /\ deriveEncryptionKey(last.pw, last.res.encryptionSalt) = lastSaved[last.user].key
    /\ last.loaded # Null
    /\ last.loaded.own = lastSaved[last.user].own

C10_Witness ==
  /\ last.op = "login"
  /\ Succeeded(last.res)
  /\ last.user \in DOMAIN lastSaved
  /\ \E n \in DOMAIN lastSaved[last.user].own :
       Len(lastSaved[last.user].own[n].epochs) > 0
  /\ pc = "main"
  /\ soulRegistry.own = lastSaved[last.user].own

\* ------------------------------------------------------------ C11 .. C20
\* every soul the programs hold in memory or have written to disk
SoulsOf(registry) == IF registry = Null THEN {} ELSE {registry.own[n] : n \in DOMAIN registry.own}

AllSouls ==
  SoulsOf(soulRegistry) \cup SoulsOf(lregistry)
    \cup UNION {SoulsOf(lastSaved[u]) : u \in DOMAIN lastSaved}

\* C11: in every soul, in memory or saved, the epoch at position i (from 1, as
\* TLA+ sequences count) carries the number i: numbers are 1..N without gaps or
\* repeats, also when the append waited for the enhancer.
C11_EpochNumbers ==
  \A soul \in AllSouls :
    \A i \in 1..Len(soul.epochs) : soul.epochs[i].number = i

C11_Witness ==
  \E soul \in AllSouls :
    /\ Len(soul.epochs) = 2
    /\ soul.epochs[2].reading.mode = "quantum-enhanced"
    /\ soul.epochs[2].number = 2

IsPrefix(xs, ys) == Len(xs) <= Len(ys) /\ xs = SubSeq(ys, 1, Len(xs))

\* own is kept by own2: every soul is still there with its seed and created,
\* and its epochs are a prefix of the later ones
SoulsKept(own, own2) ==
  \A n \in DOMAIN own :
    /\ n \in DOMAIN own2
    /\ own2[n].seed = own[n].seed
    /\ own2[n].created = own[n].created
    /\ IsPrefix(own[n].epochs, own2[n].epochs)

\* C12: no step changes the seed or the created timestamp of a soul, and a
\* step changes a soul's epochs only by appending: this holds for the registry
\* a session holds in memory and for the registry each user has on disk.
C12_SoulFrame ==
  [][/\ (soulRegistry # Null /\ soulRegistry' # Null /\ username' = username)
          => SoulsKept(soulRegistry.own, soulRegistry'.own)
     /\ \A u \in DOMAIN lastSaved :
          u \in DOMAIN lastSaved' /\ SoulsKept(lastSaved[u].own, lastSaved'[u].own)]_vars

C12_Witness ==
  /\ last.op = "newEpoch"
  /\ last.appended
  /\ last.saved
  /\ Len(soulRegistry.own[last.name].epochs) = 2
  /\ lastSaved[username].own = soulRegistry.own

Range(xs) == {xs[i] : i \in 1..Len(xs)}

\* C14: for every digest, resonance, clarity, flux and emergence lie in
\* 1..100, the pattern index and the message index lie in 0..15, and pattern
\* and message are members of the two 16-element lists.
C14_ReadingRanges ==
  oracle.op = "read" =>
    /\ \A f \in {"resonance", "clarity", "flux", "emergence"} : oracle.reading[f] \in 1..100
    /\ Len(PATTERNS) = 16 /\ Len(MESSAGES) = 16
    /\ oracle.patternIndex \in 0..15
    /\ oracle.messageIndex \in 0..15
    /\ oracle.reading.pattern \in Range(PATTERNS)
    /\ oracle.reading.message \in Range(MESSAGES)

C14_Witness ==
  /\ oracle.op = "read"
  /\ oracle.hash[1] = 99 /\ oracle.reading.resonance = 100
  /\ oracle.hash[2] = 100 /\ oracle.reading.clarity = 1
  /\ oracle.hash[8] = 255 /\ oracle.patternIndex = 15
  /\ oracle.hash[5] = 255 /\ oracle.hash[12] = 99 /\ oracle.messageIndex = 3

\* the ways the enhancer can fail: not consulted because it is unavailable,
\* script gone, process not started, non-zero exit, output that is not JSON,
\* timeout
EnhancerFailures ==
  {"not-called", "no-script", "spawn-error", "exit-nonzero", "bad-json", "timeout"}

\* the deterministic reading of the consultation the last New Epoch made
LastDeterministic == generateDeterministicReading(last.q, last.seed, last.number)

\* C15: whenever the enhancer fails in one of these ways, the consultation
\* returns the deterministic reading without enhancement fields, the epoch
\* is appended and saved, and the program goes on.
C15_FallbackAlways ==
  (last.op = "newEpoch" /\ last.forge \in EnhancerFailures) =>
    /\ last.reading = LastDeterministic
    /\ last.appended
    /\ last.saved
    /\ pc = "soul"

\* C16: the payload sent to the enhancer carries of the seed only its first 8
\* characters, never the seed itself, next to the question, the epoch number,
\* the resonance and the pattern of the deterministic reading.
C16_PartialSeedOnly ==
  (last.op = "newEpoch" /\ last.payload # Null) =>
    LET context == last.payload.context
    IN  /\ DOMAIN last.payload = {"query", "timestamp", "context"}
        /\ DOMAIN context = {"seed", "epoch", "resonance", "pattern"}
        /\ context.seed = Substring(last.seed, 8)
        /\ StrLen(context.seed) = 8
        /\ context.seed # last.seed
        /\ last.payload.query = last.q
        /\ context.epoch = last.number
        /\ context.resonance = LastDeterministic.resonance
        /\ context.pattern = LastDeterministic.pattern

C16_Witness ==
  /\ last.op = "newEpoch"
  /\ last.payload # Null
  /\ last.forge = "harmony-bare"
  /\ last.number = 2
  /\ StrLen(last.seed) = 64

CoreFields == {"resonance", "clarity", "flux", "emergence", "pattern", "message"}

\* C19: when the enhancer returns a result, the six core fields of the reading
\* that is returned and of the reading stored in the epoch, in memory and on
\* disk, equal those of the deterministic reading; every field of the
\* deterministic reading is still there.
C19_CoreUntouched ==
  (last.op = "newEpoch" /\ last.forge \in {"no-harmony", "harmony-bare", "harmony-full"}) =>
    /\ DOMAIN LastDeterministic \subseteq DOMAIN last.reading
    /\ \A f \in CoreFields : last.reading[f] = LastDeterministic[f]
    /\ soulRegistry.own[last.name].epochs[last.number].reading = last.reading
    /\ lastSaved[username].own[last.name].epochs[last.number].reading = last.reading

C19_Witness ==
  /\ last.op = "newEpoch"
  /\ last.forge = "harmony-full"
  /\ last.reading.mode = "quantum-enhanced"
  /\ "quantumInsight" \in DOMAIN last.reading
  /\ last.reading.resonance = LastDeterministic.resonance

\* what getSoulStats computes for soul when nothing is cached
UncachedStats(soul) == IF Len(soul.epochs) = 0 THEN Null ELSE computeStats(soul)

\* C18: the statistics a statistics view or a listing got from getSoulStats
\* are the statistics computed from the current epochs of the soul it was
\* called for.
C18_StatsCurrent ==
  /\ last.op = "viewStats" => last.stats = UncachedStats(soulRegistry.own[last.name])
  /\ last.op = "listSouls" =>
       \A n \in DOMAIN last.stats : last.stats[n] = UncachedStats(soulRegistry.own[n])

\* the file that holds the record store of user u
StoreOf(u) == ResolvePath(getSoulsFilePath(u))

\* C17: registered users with different names have different record files; a
\* session of user u that has just written its registry has encrypted it with
\* the key derived from u's password and u's encryptionSalt and has left the
\* record file of every other registered user as it was; a login of u that
\* found a record file has read what u's sessions saved.
C17_StoreIsolation ==
  /\ \A u, v \in DOMAIN reg : u # v => StoreOf(u) # StoreOf(v)
  /\ (last.op \in {"createSoul", "newEpoch"} /\ pc \in {"main", "soul"}) =>
       /\ encLog[Len(encLog)].key =
            deriveEncryptionKey(reg[username].pw, reg[username].rec.encryptionSalt)
       /\ \A v \in DOMAIN reg \ {username} : fs[StoreOf(v)] = last.before[StoreOf(v)]
  /\ (last.op = "login" /\ Succeeded(last.res) /\ fileExists(fs[StoreOf(last.user)])) =>
       /\ last.user \in DOMAIN lastSaved
       /\ last.loaded # Null
       /\ last.loaded.own = lastSaved[last.user].own

\* C20: a call of invokeQuantumForge resolves exactly once, with what the
\* first of process close and timeout gave (a later close changes nothing),
\* no call ends without resolving, and a call is never pending for longer
\* than the configured timeout QUANTUM_TIMEOUT_MS.
C20_ResolveOnceInTime ==
  /\ forgeCall.phase = "resolved" =>
       /\ forgeCall.settled = 1
       /\ forgeCall.result = forgeCall.firstOutcome
  /\ forgeCall.phase # "crashed"
  /\ forgeCall.phase = "pending" => forgeCall.elapsed <= forgeCall.configured

\* ------------------------------------------------------------ C21 .. C30
\* C21: when the timeout fires before the enhancer process has closed, the
\* process is killed; once a call of invokeQuantumForge has resolved, the
\* process it spawned, if any, has closed or has been killed.
C21_NoProcessLeft ==
  /\ forgeCall.phase = "resolved" => forgeCall.child \in {"none", "closed", "killed"}
  /\ forgeCall.firstEvent = "timeout" => forgeCall.child \in {"closed", "killed"}

C21_Witness ==
  /\ forgeCall.phase = "resolved"
  /\ forgeCall.firstEvent = "timeout"
  /\ forgeCall.child = "killed"
  /\ forgeCall.result = Null

\* C22: a soul added by Create New Soul has a non-empty name of at most 50
\* characters that was not in the registry, has no epochs and a null
\* lastEpoch, and is in the registry under its name afterwards; an attempt
\* with a name that is in the registry leaves the registry as it was.
C22_CreateSoul ==
  /\ last.op = "createSoul" =>
       /\ last.name # ""
       /\ Len(last.name) <= 50
       /\ last.name \notin ObjectKeys(last.registry)
       /\ last.name \in ObjectKeys(soulRegistry)
       /\ soulRegistry.own[last.name].name = last.name
       /\ soulRegistry.own[last.name].epochs = <<>>
       /\ soulRegistry.own[last.name].lastEpoch = Null
  /\ (last.op = "createSoulRejected" /\ last.name \in ObjectKeys(last.registry)) =>
       soulRegistry = last.registry

\* a username of 3 to 20 characters, each a letter, a digit, "_" or "-"; for
\* the usernames of this model these are the ones below
ValidShape(u) == u \in Usernames \cup FoldUsers

\* C23: no credential record is stored, no session runs and no record file
\* exists under a username that is not 3 to 20 characters of letters, digits,
\* underscore and hyphen.
C23_UsernameShape ==
  /\ \A u \in DOMAIN StoredUsers : ValidShape(u)
  /\ \A u \in DOMAIN reg : ValidShape(u)
  /\ username # "" => ValidShape(username)
  /\ \A u \in TypedUsernames : ~ValidShape(u) => fs[getSoulsFilePath(u)] = Absent

C23_Witness ==
  /\ last.op = "registerRejected"
  /\ last.user = "../x"
  /\ DOMAIN StoredUsers # {}
  /\ fs[getSoulsFilePath("alice")] # Absent

\* C24: when persisting the users database fails during a registration,
\* registerUser reports failure and the users database that later operations
\* load is the one from before the attempt.
C24_RegisterAtomic ==
  (last.op = "register" /\ last.wr # "ok") =>
     /\ ~Succeeded(last.res)
     /\ loadUsers(fs[USERS_FILE]) = loadUsers(last.before[USERS_FILE])

\* the lines an operation wrote to the terminal
Printed(line) == \E i \in DOMAIN last.output : last.output[i] = line

\* C25: when saveSouls returns false after creating a soul or adding an epoch,
\* the failure is printed and the operation is not printed as saved or
\* succeeded.
C25_SaveFailureReported ==
  /\ (last.op = "createSoul" /\ ~last.saved) =>
        Printed("Failed to save souls") /\ ~Printed("Soul created")
  /\ (last.op = "newEpoch" /\ last.appended /\ ~last.saved) =>
        Printed("Failed to save souls") /\ ~Printed("Saving done")

\* C26: in every soul, in memory or saved, lastEpoch is null exactly when the
\* soul has no epochs, and otherwise is the timestamp of its last epoch.
C26_LastEpoch ==
  \A soul \in AllSouls :
    /\ (soul.lastEpoch = Null) <=> (soul.epochs = <<>>)
    /\ soul.epochs # <<>> => soul.lastEpoch = soul.epochs[Len(soul.epochs)].timestamp

C26_Witness ==
  \E soul \in AllSouls :
    /\ Len(soul.epochs) = 2
    /\ soul.lastEpoch = soul.epochs[2].timestamp
    /\ soul.lastEpoch # soul.epochs[1].timestamp

\* C27: after [4] Return to Main Menu the program is at the main menu of the
\* session the soul menu was entered from: the same user, key and in-memory
\* registry, without a login in between.
C27_SameSession ==
  last.op = "returnToMain" =>
     /\ pc = "main"
     /\ username = last.user
     /\ key = last.key
     /\ soulRegistry = last.registry

\* C28: when the availability probe of a starting process yields true, the
\* first banner shows the bridge as ACTIVE.
C28_FirstBanner ==
  (last.op = "start" /\ last.probe) =>
     \E i \in DOMAIN last.banner : last.banner[i] = "Quantum Forge Bridge: ACTIVE"

\* the new epoch last consulted for started the enhancer process
Spawned == last.op = "newEpoch" /\ last.forge \notin {"not-called", "no-script"}

\* C29: quantum mode is off when a soul menu is entered, goes from off to on
\* only by the toggle while the enhancer is detected as available, and a
\* consultation starts the enhancer process only with quantum mode on and the
\* enhancer detected; with quantum mode off the bridge is not called at all.
C29_SpawnOnlyInQuantumMode ==
  /\ [](/\ last.op = "selectSoul" => ~quantumMode
        /\ quantumMode => (pc = "soul" /\ isQuantumAvailable)
        /\ Spawned => (last.quantum /\ isQuantumAvailable)
        /\ (last.op = "newEpoch" /\ ~last.quantum) => last.forge = "not-called")
  /\ [][(~quantumMode /\ quantumMode') =>
          (last'.op = "toggleQuantum" /\ isQuantumAvailable /\ pc = "soul" /\ pc' = "soul")]_vars

C29_Witness ==
  /\ Spawned
  /\ last.quantum
  /\ last.appended
  /\ last.reading.mode = "quantum-enhanced"

\* the files that hold soul registries
RecordPaths == Paths \ {USERS_FILE}

\* the key the running session of the program that owns the file loaded it with
SessionKey(path) == IF path = LEGACY_SOULS_FILE THEN lkey ELSE key

\* C30: when loadSouls fails at the start of a session the session ends with
\* every file as it was; and a program writes a record file only in a session
\* whose load succeeded, with the key of that load, so that a bundle a program
\* wrote under one key is never replaced by a write under another key.
C30_WriteOnlyAfterLoad ==
  /\ [](/\ (last.op = "legacyStart" /\ last.loaded = Null) =>
             (lpc = "off" /\ lkey = Null /\ fs = last.before)
        /\ (last.op = "login" /\ Succeeded(last.res) /\ last.loaded = Null) =>
             (pc = "exit" /\ key = Null /\ fs = last.before))
  /\ [][\A path \in RecordPaths :
          (fs'[path] # fs[path] /\ last'.op # "tamper") =>
             /\ SessionKey(path) # Null
             /\ SessionKey(path)' = SessionKey(path)
             /\ Pristine(fs[path]) => fs[path].data.v.k = SessionKey(path)
             /\ Pristine(fs'[path]) => fs'[path].data.v.k = SessionKey(path)]_vars

C30_Witness ==
  /\ last.op = "legacyStart"
  /\ last.loaded = Null
  /\ Pristine(fs[LEGACY_SOULS_FILE])
  /\ fs[LEGACY_SOULS_FILE].data.v.k # deriveKey(last.pw)
  /\ lpc = "off"

=============================================================================
